---- MODULE Spec2Model ----
(***************************************************************************)
(* A model of dataset-writer-rs: the parallel dataset writer (lib.rs), the *)
(* Parquet table writer (parquet.rs), the Arrow IPC table writer (ipc.rs)  *)
(* and the partitioned table writers (partitioned.rs).                     *)
(***************************************************************************)
EXTENDS Integers, Sequences, FiniteSets, TLC

(* ------------------------------ bounds -------------------------------- *)

\* Number of distinct worker threads that ever run.
NumThreads == 2
\* Cap on the file-sequence counter (an AtomicU64 in the code).
MaxSeq == 3
\* Rows inserted into one table writer.
MaxRows == 6
\* Largest autoflush_row_group_len, autoflush_buffer_size, max_row_group_size.
MaxRowThreshold == 2
MaxByteThreshold == 1
MaxGroupSize == 2
\* Stands for i16::MAX = 32767, the row groups a Parquet file can hold; the
\* code rolls over at i16::MAX - 2.
MaxRowGroups == 5
\* I/O failures are injected into an operation of a table writer only while
\* fewer than this many have occurred in the writer's life.
MaxFailures == 1
\* Largest num_partitions (a NonZeroU16 in the code).
MaxPartitions == 2
\* Cap on the flushes counted over the life of one ParquetTableWriter.
MaxFlushes == 5

Threads == 1..NumThreads
NoVal == 0 - 1

VARIABLES
    num_files,   \* ParallelDatasetWriter::num_files (AtomicU64)
    writers,     \* ParallelDatasetWriter::writers: the slots holding a value
    pool,        \* every writer instance ever stored, by ThreadLocal slot
    files,       \* the paths W::new has passed to File::create
    ncreated,    \* how many times W::new has called File::create
    issued,      \* the values num_files.fetch_add has returned, in order
    th,          \* the worker threads
    free_from,   \* thread_local's ThreadIdManager::free_from
    free_list,   \* thread_local's ThreadIdManager::free_list
    pdw,         \* where the ParallelDatasetWriter is in its life
    fan,         \* the fan-in operation (flush/close/drop) in progress
    closeret,    \* what close() returned
    lastcall,    \* the outcome of the get_thread_writer call that just returned
    pq,          \* the ParquetTableWriter and the files it has created
    aw,          \* the ArrowTableWriter and its file
    twst,        \* where the table writer is in its life
    twop,        \* the table writer operation that just returned
    inserted,    \* rows appended to the table writer's builder so far
    handle,      \* the caller holds the &mut Builder handed out by builder()
    config,      \* ParallelDatasetWriter::config, a ParquetTableWriterConfig
    sink,        \* the ParquetTableWriter of each ThreadLocal slot
    pt,          \* the partitioned table writer, its sub-writers and its disk
    rl           \* the flushes a ParquetTableWriter has performed in its life

parVars == <<num_files, writers, pool, files, ncreated, issued, th, free_from,
             free_list, pdw, fan, closeret, lastcall>>

twVars == <<pq, aw, twst, twop, inserted, handle>>

e2eVars == <<config, sink>>

ptVars == <<pt>>

rlVars == <<rl>>

vars == <<parVars, twVars, e2eVars, ptVars, rlVars>>

(* ------------------------- helper operators --------------------------- *)

Min(S) == CHOOSE x \in S : \A y \in S : x <= y

\* The characters of a decimal digit.
Digit(d) == <<"0", "1", "2", "3", "4", "5", "6", "7", "8", "9">>[d + 1]

\* u64::to_string: the decimal digits, most significant first.
RECURSIVE u64_to_string(_)
u64_to_string(n) ==
    IF n < 10 THEN <<Digit(n)>>
    ELSE Append(u64_to_string(n \div 10), Digit(n % 10))

RECURSIVE SumSeq(_)
SumSeq(q) == IF q = <<>> THEN 0 ELSE Head(q) + SumSeq(Tail(q))

\* self.path.join(seq.to_string()): the dataset directory and the file name.
SeqPath(n) == <<"dir", u64_to_string(n)>>

(* ----------------------- ParallelDatasetWriter ------------------------ *)

NewThread == [st |-> "run", tid |-> NoVal, held |-> 0, pc |-> "idle",
              seq |-> NoVal, got |-> NoVal]

NoFan == [kind |-> "none", targets |-> {}, pending |-> {}, err |-> FALSE,
          nres |-> 0]

NoCall == [t |-> NoVal, res |-> "none", w |-> NoVal]

InitPar ==
    /\ num_files = 0
    /\ writers = {}
    /\ pool = <<>>
    /\ files = {}
    /\ ncreated = 0
    /\ issued = <<>>
    /\ th = [t \in Threads |-> NewThread]
    /\ free_from = 0
    /\ free_list = {}
    /\ pdw = "live"
    /\ fan = NoFan
    /\ closeret = "none"
    /\ lastcall = NoCall

\* thread_local::thread_id::get(): the id of the calling thread, allocated on
\* its first use from the smallest freed id, else from free_from.
ThreadIdGet(t) ==
    IF th[t].tid # NoVal THEN th[t].tid
    ELSE IF free_list # {} THEN Min(free_list)
    ELSE free_from

\* The ThreadLocal slot the calling thread reads and fills.
SlotSharedCell(t) == 0
SlotOf(t) == ThreadIdGet(t)

\* The ThreadIdManager after thread_id::get() by thread t.
ThreadIdAllocated(t) ==
    IF th[t].tid # NoVal THEN UNCHANGED <<free_from, free_list>>
    ELSE IF free_list # {}
         THEN /\ free_list' = free_list \ {Min(free_list)}
              /\ UNCHANGED free_from
         ELSE /\ free_from' = free_from + 1
              /\ UNCHANGED free_list

\* AtomicU64::fetch_add(1): the counter's next value.
FetchAddLoadOnly(n) == n
FetchAdd(n) == n + 1

\* RefCell::borrow_mut on the writer in slot s, by thread t: panics when the
\* cell is already borrowed. The panic unwinds the thread: its references are
\* dropped and its thread id is freed.
BorrowMutUnchecked(t, s) ==
    /\ th[t].held < 2
    /\ pool' = [pool EXCEPT ![s].borrow = TRUE]
    /\ th' = [th EXCEPT ![t].tid = ThreadIdGet(t),
                        ![t].held = @ + 1,
                        ![t].got = IF @ = NoVal THEN pool[s].seq ELSE @]
    /\ lastcall' = [t |-> t, w |-> pool[s].seq,
                    res |-> IF th[t].got = NoVal THEN "first" ELSE "again"]
    /\ ThreadIdAllocated(t)
BorrowMut(t, s) ==
    IF pool[s].borrow
    THEN /\ pool' = [pool EXCEPT ![s].borrow =
                        IF th[t].held > 0 THEN FALSE ELSE @]
         /\ th' = [th EXCEPT ![t].st = "panicked", ![t].held = 0,
                             ![t].tid = NoVal]
         /\ lastcall' = [t |-> t, w |-> NoVal, res |-> "panic"]
         /\ free_list' = free_list \cup {ThreadIdGet(t)}
         /\ free_from' = IF th[t].tid = NoVal /\ free_list = {}
                         THEN free_from + 1 ELSE free_from
    ELSE /\ pool' = [pool EXCEPT ![s].borrow = TRUE]
         /\ th' = [th EXCEPT ![t].tid = ThreadIdGet(t),
                             ![t].held = @ + 1,
                             ![t].got = IF @ = NoVal THEN pool[s].seq ELSE @]
         /\ lastcall' = [t |-> t, w |-> pool[s].seq,
                         res |-> IF th[t].got = NoVal THEN "first" ELSE "again"]
         /\ ThreadIdAllocated(t)

\* get_new_seq_writer, first half: take the next sequence number.
AllocSeq(t) ==
    /\ num_files < MaxSeq
    /\ issued' = Append(issued, num_files)
    /\ num_files' = FetchAdd(num_files)
    /\ th' = [th EXCEPT ![t].tid = ThreadIdGet(t), ![t].pc = "creating",
                        ![t].seq = num_files]
    /\ lastcall' = NoCall
    /\ ThreadIdAllocated(t)
    /\ UNCHANGED <<writers, pool, files, ncreated>>

\* ThreadLocal::get_or_try: whether the calling thread's slot holds a value.
LookupAlwaysMiss(t) == FALSE
Lookup(t) == SlotOf(t) \in writers

\* get_thread_writer, called by thread t: up to the borrow of the writer found
\* in the thread's slot, or up to the fetch_add when the slot is empty.
get_thread_writer(t) ==
    /\ pdw = "live"
    /\ th[t].st = "run"
    /\ th[t].pc = "idle"
    /\ IF Lookup(t)
       THEN /\ BorrowMut(t, SlotOf(t))
            /\ UNCHANGED <<num_files, writers, files, ncreated, issued>>
       ELSE AllocSeq(t)
    /\ UNCHANGED <<pdw, fan, closeret>>

CreateOutcomes == {"ok", "fail_nofile", "fail_file"}

NewWriterRec(n) == [seq |-> n, borrow |-> TRUE, flushes |-> 0, closes |-> 0,
                    closeok |-> FALSE, dropped |-> FALSE]

\* get_new_seq_writer, second half, and the rest of get_thread_writer:
\* W::new(path, ...), then the insertion into the thread's slot and the first
\* borrow_mut. W::new may fail before or after it has created the file.
get_new_seq_writer(t, o) ==
    /\ pdw = "live"
    /\ th[t].st = "run"
    /\ th[t].pc = "creating"
    /\ files' = IF o = "fail_nofile" THEN files
                ELSE files \cup {SeqPath(th[t].seq)}
    /\ ncreated' = IF o = "fail_nofile" THEN ncreated ELSE ncreated + 1
    /\ IF o = "ok"
       THEN /\ writers' = writers \cup {th[t].tid}
            /\ pool' = [s \in DOMAIN pool \cup {th[t].tid} |->
                          IF s = th[t].tid THEN NewWriterRec(th[t].seq)
                          ELSE pool[s]]
            /\ th' = [th EXCEPT ![t].pc = "idle", ![t].seq = NoVal,
                                ![t].held = @ + 1,
                                ![t].got = IF @ = NoVal THEN th[t].seq ELSE @]
            /\ lastcall' = [t |-> t, w |-> th[t].seq,
                            res |-> IF th[t].got = NoVal THEN "first"
                                    ELSE "again"]
       ELSE /\ th' = [th EXCEPT ![t].pc = "idle", ![t].seq = NoVal]
            /\ lastcall' = [t |-> t, w |-> NoVal, res |-> "err"]
            /\ UNCHANGED <<writers, pool>>
    /\ UNCHANGED <<num_files, issued, free_from, free_list, pdw, fan, closeret>>

\* The RefMut returned by get_thread_writer goes out of scope.
ReleaseRef(t) ==
    /\ th[t].st = "run"
    /\ th[t].held > 0
    /\ th' = [th EXCEPT ![t].held = @ - 1]
    /\ pool' = [pool EXCEPT ![th[t].tid].borrow = FALSE]
    /\ lastcall' = NoCall
    /\ UNCHANGED <<num_files, writers, files, ncreated, issued, free_from,
                   free_list, pdw, fan, closeret>>

\* The thread ends: its references are dropped and thread_local frees its id,
\* while the value in its slot stays in the ThreadLocal.
ThreadExit(t) ==
    /\ th[t].st = "run"
    /\ th[t].pc = "idle"
    /\ th' = [th EXCEPT ![t].st = "exited", ![t].held = 0, ![t].tid = NoVal]
    /\ pool' = IF th[t].held > 0
               THEN [pool EXCEPT ![th[t].tid].borrow = FALSE] ELSE pool
    /\ free_list' = IF th[t].tid # NoVal THEN free_list \cup {th[t].tid}
                    ELSE free_list
    /\ lastcall' = NoCall
    /\ UNCHANGED <<num_files, writers, files, ncreated, issued, free_from,
                   pdw, fan, closeret>>

\* flush(&mut self), close(self) and drop(&mut self) need the writer
\* exclusively: no RefMut is alive and no get_thread_writer is running.
Quiescent == \A t \in Threads : th[t].held = 0 /\ th[t].pc = "idle"

(* ------------------- fan-in: flush, close and drop -------------------- *)

StartFan(k, ws) == [kind |-> k, targets |-> ws, pending |-> ws,
                    err |-> FALSE, nres |-> 0]

\* What mem::swap(&mut tmp, &mut self.writers) leaves in self.writers: the
\* fresh, empty ThreadLocal.
SwapKeepsRegistry(ws) == ws
SwapLeaves(ws) == {}

\* flush(&mut self): collect the writers, then map flush over them in parallel.
flush_begin ==
    /\ pdw = "live"
    /\ Quiescent
    /\ pdw' = "flushing"
    /\ fan' = StartFan("flush", writers)
    /\ lastcall' = NoCall
    /\ UNCHANGED <<num_files, writers, pool, files, ncreated, issued, th,
                   free_from, free_list, closeret>>

\* One task of the parallel iterator runs the closure on writer s; ok is
\* whether W::flush / W::close returned Ok.
fan_visit(s, ok) ==
    /\ pdw \in {"flushing", "closing", "dropping"}
    /\ s \in fan.pending
    /\ pool' = IF fan.kind = "flush"
               THEN [pool EXCEPT ![s].flushes = @ + 1]
               ELSE [pool EXCEPT ![s].closes = @ + 1, ![s].closeok = ok]
    /\ fan' = [fan EXCEPT !.pending = @ \ {s},
                          !.err = @ \/ ~ok,
                          !.nres = IF ok THEN @ + 1 ELSE @]
    /\ UNCHANGED <<num_files, writers, files, ncreated, issued, th, free_from,
                   free_list, pdw, closeret, lastcall>>

\* rayon stops handing out items once one closure has returned Err (collect
\* into Result, try_for_each): an item not started yet is never passed to the
\* closure. In close and drop the writer was moved into the iterator, so the
\* skipped writer is dropped there.
fan_skip(s) ==
    /\ pdw \in {"flushing", "closing", "dropping"}
    /\ s \in fan.pending
    /\ fan.err
    /\ pool' = IF fan.kind = "flush" THEN pool
               ELSE [pool EXCEPT ![s].dropped = TRUE]
    /\ fan' = [fan EXCEPT !.pending = @ \ {s}]
    /\ UNCHANGED <<num_files, writers, files, ncreated, issued, th, free_from,
                   free_list, pdw, closeret, lastcall>>

\* flush returns Ok(()) or the error kept by collect.
flush_return ==
    /\ pdw = "flushing"
    /\ fan.pending = {}
    /\ pdw' = "live"
    /\ fan' = NoFan
    /\ pool' = [s \in DOMAIN pool |-> [pool[s] EXCEPT !.flushes = 0]]
    /\ UNCHANGED <<num_files, writers, files, ncreated, issued, th,
                   free_from, free_list, closeret, lastcall>>

\* close(mut self): swap the registry out, then map close over its writers.
close_begin ==
    /\ pdw = "live"
    /\ Quiescent
    /\ pdw' = "closing"
    /\ writers' = SwapLeaves(writers)
    /\ fan' = StartFan("close", writers)
    /\ lastcall' = NoCall
    /\ UNCHANGED <<num_files, pool, files, ncreated, issued, th, free_from,
                   free_list, closeret>>

\* close returns its collected result; self goes out of scope, so Drop::drop
\* starts on what is left in self.writers.
close_return ==
    /\ pdw = "closing"
    /\ fan.pending = {}
    /\ closeret' = IF fan.err THEN "Err" ELSE "Ok"
    /\ pdw' = "dropping"
    /\ writers' = SwapLeaves(writers)
    /\ fan' = StartFan("drop", writers)
    /\ UNCHANGED <<num_files, pool, files, ncreated, issued, th, free_from,
                   free_list, lastcall>>

\* The ParallelDatasetWriter is discarded without close(): Drop::drop.
drop_begin ==
    /\ pdw = "live"
    /\ Quiescent
    /\ pdw' = "dropping"
    /\ writers' = SwapLeaves(writers)
    /\ fan' = StartFan("drop", writers)
    /\ lastcall' = NoCall
    /\ UNCHANGED <<num_files, pool, files, ncreated, issued, th, free_from,
                   free_list, closeret>>

\* .expect("Could not close ParallelDatasetWriter") on try_for_each's result.
ExpectIgnored(err) == "dropped"
Expect(err) == IF err THEN "panicked" ELSE "dropped"

drop_end ==
    /\ pdw = "dropping"
    /\ fan.pending = {}
    /\ pdw' = Expect(fan.err)
    /\ UNCHANGED <<num_files, writers, pool, files, ncreated, issued, th,
                   free_from, free_list, fan, closeret, lastcall>>

(* ------------------------- ParquetTableWriter ------------------------- *)

\* Path::set_extension(ext) on a file name given as its characters: the part
\* after the last '.' (when the name has one that is not its first character)
\* is replaced, otherwise '.' and ext are appended.
DotsOf(name) == {i \in 2..Len(name) : name[i] = "."}
LastDot(name) == CHOOSE i \in DotsOf(name) : \A j \in DotsOf(name) : j <= i
set_extension(name, ext) ==
    IF DotsOf(name) = {} THEN name \o <<".", ext>>
    ELSE SubSeq(name, 1, LastDot(name) - 1) \o <<".", ext>>

\* new_file_writer's path: the base path for the first file, else the base
\* file name with "_<num_written_files>" pushed onto it; then
\* set_extension("parquet").
RolloverPath(base, n) ==
    IF n = 0 THEN set_extension(base, "parquet")
    ELSE set_extension(base \o <<"_">> \o u64_to_string(n), "parquet")

\* File::create(path): a new, empty file; a file already at that path is
\* truncated.
FileCreate(fs, path) ==
    Append([i \in 1..Len(fs) |->
               IF fs[i].path = path THEN [fs[i] EXCEPT !.live = FALSE]
               ELSE fs[i]],
           [path |-> path, groups |-> <<>>, fin |-> 0, live |-> TRUE])

\* The row groups ParquetWriter::write followed by ParquetWriter::flush adds
\* for a batch of n rows: full groups of max_row_group_size, then the rest.
FullGroupsNone(n, m) == <<>>
FullGroups(n, m) == [i \in 1..(n \div m) |-> m]
RestGroupDropped(n, m) == <<>>
RestGroup(n, m) == IF n % m > 0 THEN <<n % m>> ELSE <<>>

\* i16::MAX - 2, the row-group count at which flush rolls over, and
\* i16::MAX, the format's cap.
RolloverAt == MaxRowGroups - 2
RolloverDue(n) == n >= RolloverAt

FlushOutcomes == {"ok", "finish_err", "write_err", "flush_err",
                  "roll_close_err", "roll_create_err", "roll_writer_err"}
CloseOutcomes == {"ok", "close_err"}

\* new_file_writer(&mut self) with I/O outcome o: the writer after it, and
\* what it returned.
new_file_writer(w, o) ==
    LET taken == [w EXCEPT !.fw = NoVal]
        closed == IF w.fw = NoVal THEN w
                  ELSE [taken EXCEPT !.fs[w.fw].fin = @ + 1,
                                     !.nwf = @ + 1]
        path == RolloverPath(w.base, closed.nwf)
        made == [closed EXCEPT !.fs = FileCreate(@, path)]
    IN  IF w.fw # NoVal /\ o = "roll_close_err"
        THEN [w |-> [taken EXCEPT !.nfail = @ + 1], res |-> "Err"]
        ELSE IF o = "roll_create_err"
        THEN [w |-> [closed EXCEPT !.nfail = @ + 1], res |-> "Err"]
        ELSE IF o = "roll_writer_err"
        THEN [w |-> [made EXCEPT !.nfail = @ + 1], res |-> "Err"]
        ELSE [w |-> [made EXCEPT !.fw = Len(made.fs)], res |-> "Ok"]

\* flush(&mut self) with I/O outcome o.
flush(w, o) ==
    LET called == [w EXCEPT !.nfl = @ + 1]
        built == [called EXCEPT !.len = 0, !.bytes = 0]
        wrote == [built EXCEPT !.fs[w.fw].groups =
                                   @ \o FullGroups(w.len, w.m)]
        flushed == [wrote EXCEPT !.fs[w.fw].groups =
                                   @ \o RestGroup(w.len, w.m)]
    IN  IF o = "finish_err"
        THEN [w |-> [called EXCEPT !.nfail = @ + 1], res |-> "Err"]
        ELSE IF w.fw = NoVal
        THEN [w |-> built, res |-> "panic"]
        ELSE IF o = "write_err"
        THEN [w |-> [built EXCEPT !.nfail = @ + 1], res |-> "Err"]
        ELSE IF o = "flush_err"
        THEN [w |-> [wrote EXCEPT !.nfail = @ + 1], res |-> "Err"]
        ELSE IF RolloverDue(Len(flushed.fs[w.fw].groups))
        THEN new_file_writer(flushed, o)
        ELSE [w |-> flushed, res |-> "Ok"]

\* builder()'s two threshold tests.
RowThresholdExceeded(len, r) == len > r
RowThresholdReached(len, r) == len >= r
ByteThresholdNever(bytes, b) == FALSE
ByteThresholdReached(bytes, b) == b # NoVal /\ bytes >= b

\* builder(&mut self): flush when the row threshold is reached, then flush
\* when the byte threshold is configured and reached.
builder_rows(w, o1) ==
    IF RowThresholdReached(w.len, w.r) THEN flush(w, o1)
    ELSE [w |-> w, res |-> "Ok"]
builder(w, o1, o2) ==
    LET first == builder_rows(w, o1)
    IN  IF first.res # "Ok" THEN first
        ELSE IF ByteThresholdReached(first.w.bytes, w.b)
        THEN flush(first.w, o2)
        ELSE first

\* close(mut self), up to its return: the last flush, then the file's close,
\* whose FileMetaData (here its num_rows) is the result.
close(w, o, c) ==
    LET f == flush(w, o)
        taken == [f.w EXCEPT !.fw = NoVal]
    IN  IF f.res # "Ok" THEN [w |-> f.w, res |-> f.res, meta |-> NoVal]
        ELSE IF f.w.fw = NoVal
        THEN [w |-> f.w, res |-> "panic", meta |-> NoVal]
        ELSE IF c = "close_err"
        THEN [w |-> [taken EXCEPT !.nfail = @ + 1], res |-> "Err",
              meta |-> NoVal]
        ELSE [w |-> [taken EXCEPT !.fs[f.w.fw].fin = @ + 1], res |-> "Ok",
              meta |-> SumSeq(f.w.fs[f.w.fw].groups)]

\* Drop::drop(&mut self): nothing when file_writer is None, else
\* flush().unwrap() and file_writer.close().unwrap().
DropGuard(w) == w.fw # NoVal
drop(w, o, c) ==
    LET f == flush(w, o)
        taken == [f.w EXCEPT !.fw = NoVal]
    IN  IF ~DropGuard(w) THEN [w |-> w, res |-> "noop"]
        ELSE IF f.res # "Ok" THEN [w |-> f.w, res |-> "panic"]
        ELSE IF f.w.fw = NoVal \/ c = "close_err"
        THEN [w |-> [taken EXCEPT !.nfail = @ + 1], res |-> "panic"]
        ELSE [w |-> [taken EXCEPT !.fs[f.w.fw].fin = @ + 1], res |-> "ok"]

\* The file names a ParquetTableWriter is created on: a sequence number, as
\* ParallelDatasetWriter passes, and a name with an extension.
BaseNames == {<<"0">>, <<"t", ".", "parquet">>}
RowThresholds == 0..MaxRowThreshold
ByteThresholds == {NoVal} \cup (0..MaxByteThreshold)
GroupSizes == 1..MaxGroupSize
RowBytes == {1}

\* ParquetTableWriter::new before its first new_file_writer.
NewParquet(base, r, b, m) ==
    [base |-> base, r |-> r, b |-> b, m |-> m, len |-> 0, bytes |-> 0,
     fw |-> NoVal, nwf |-> 0, fs |-> <<>>, nfl |-> 0, nfail |-> 0]

NoOp == [name |-> "none", res |-> "none", prelen |-> 0, nfl |-> 0,
         dres |-> "none", dnfl |-> 0, dfin |-> 0, meta |-> NoVal]

\* No table writer is the subject of the run.
IdlePq == pq = NewParquet(<<"0">>, 0, NoVal, 1)

\* A ParquetTableWriter that new() has returned.
InitPq ==
    /\ \E base \in BaseNames, r \in RowThresholds, b \in ByteThresholds,
          m \in GroupSizes :
          pq = new_file_writer(NewParquet(base, r, b, m), "ok").w
    /\ twst = "open"
    /\ twop = NoOp
    /\ inserted = 0
    /\ handle = FALSE

\* The finalizations the files have seen in all.
RECURSIVE TotalFin(_)
TotalFin(fs) == IF fs = <<>> THEN 0 ELSE Head(fs).fin + TotalFin(Tail(fs))

\* The caller asks for the builder.
pq_builder(o1, o2) ==
    /\ twst = "open"
    /\ UNCHANGED aw
    /\ \E r \in {builder([pq EXCEPT !.nfl = 0], o1, o2)} :
           /\ pq' = r.w
           /\ twst' = IF r.res = "panic" THEN "panicked" ELSE "open"
           /\ handle' = (r.res = "Ok")
           /\ twop' = [NoOp EXCEPT !.name = "builder", !.res = r.res,
                                   !.prelen = pq.len, !.nfl = r.w.nfl]
    /\ UNCHANGED inserted

\* The caller appends one row of b bytes through the builder it was handed.
pq_insert(b) ==
    /\ twst = "open"
    /\ UNCHANGED aw
    /\ handle
    /\ inserted < MaxRows
    /\ pq' = [pq EXCEPT !.len = @ + 1, !.bytes = @ + b]
    /\ inserted' = inserted + 1
    /\ twop' = [NoOp EXCEPT !.name = "insert", !.res = "Ok", !.prelen = pq.len]
    /\ UNCHANGED <<twst, handle>>

\* The caller flushes.
pq_flush(o) ==
    /\ twst = "open"
    /\ UNCHANGED aw
    /\ \E r \in {flush([pq EXCEPT !.nfl = 0], o)} :
           /\ pq' = r.w
           /\ twst' = IF r.res = "panic" THEN "panicked" ELSE "open"
           /\ twop' = [NoOp EXCEPT !.name = "flush", !.res = r.res,
                                   !.prelen = pq.len, !.nfl = r.w.nfl]
    /\ handle' = FALSE
    /\ UNCHANGED inserted

\* The caller closes the writer: close(mut self), then the drop of self at
\* the end of close.
pq_close(o, c, o2, c2) ==
    /\ twst = "open"
    /\ UNCHANGED aw
    /\ \E r \in {close([pq EXCEPT !.nfl = 0], o, c)} :
        \E d \in {drop([r.w EXCEPT !.nfl = 0], o2, c2)} :
           /\ pq' = d.w
           /\ twst' = IF r.res = "panic" \/ d.res = "panic" THEN "panicked"
                      ELSE "closed"
           /\ twop' = [NoOp EXCEPT !.name = "close", !.res = r.res,
                                   !.prelen = pq.len, !.nfl = r.w.nfl,
                                   !.meta = r.meta,
                                   !.dres = d.res,
                                   !.dnfl = IF d.res = "noop" THEN 0
                                            ELSE d.w.nfl,
                                   !.dfin = TotalFin(d.w.fs) - TotalFin(r.w.fs)]
    /\ handle' = FALSE
    /\ UNCHANGED inserted

\* The writer is discarded without close.
pq_drop(o, c) ==
    /\ twst = "open"
    /\ UNCHANGED aw
    /\ \E d \in {drop([pq EXCEPT !.nfl = 0], o, c)} :
           /\ pq' = d.w
           /\ twst' = IF d.res = "panic" THEN "panicked" ELSE "dropped"
           /\ twop' = [NoOp EXCEPT !.name = "drop", !.res = "none",
                                   !.prelen = pq.len, !.dres = d.res,
                                   !.dnfl = d.w.nfl,
                                   !.dfin = TotalFin(d.w.fs) - TotalFin(pq.fs)]
    /\ handle' = FALSE
    /\ UNCHANGED inserted

(* -------------------------- ArrowTableWriter -------------------------- *)

ArrowFlushOutcomes == {"ok", "finish_err", "write_err"}

\* ArrowTableWriter::new: the file is created and the IPC writer opened.
NewArrow(thr) ==
    [thr |-> thr, len |-> 0, rows |-> 0, finished |-> FALSE, nfl |-> 0,
     nfin |-> 0, fail |-> FALSE]

\* flush(&mut self): the builder is swapped for an empty one and finished,
\* and the batch is written; FileWriter::write fails on a finished file.
arrow_flush(w, o) ==
    LET swapped == [w EXCEPT !.nfl = @ + 1, !.len = 0]
    IN  IF o = "finish_err" \/ o = "write_err" \/ w.finished
        THEN [w |-> [swapped EXCEPT !.fail = TRUE], res |-> "Err"]
        ELSE [w |-> [swapped EXCEPT !.rows = @ + w.len], res |-> "Ok"]

\* FileWriter::finish: writes the footer; fails on a finished file.
arrow_finish(w, c) ==
    IF c = "close_err" \/ w.finished
    THEN [w |-> [w EXCEPT !.nfin = @ + 1, !.fail = TRUE], res |-> "Err"]
    ELSE [w |-> [w EXCEPT !.nfin = @ + 1, !.finished = TRUE], res |-> "Ok"]

\* builder(&mut self): flush when the row threshold is reached.
arrow_builder(w, o) ==
    IF w.len >= w.thr THEN arrow_flush(w, o) ELSE [w |-> w, res |-> "Ok"]

\* close(mut self), up to its return.
arrow_close(w, o, c) ==
    LET f == arrow_flush(w, o)
    IN  IF f.res # "Ok" THEN f ELSE arrow_finish(f.w, c)

\* Drop::drop(&mut self): flush().unwrap(), then finish().expect(..).
arrow_drop(w, o, c) ==
    LET f == arrow_flush(w, o)
        e == arrow_finish(f.w, c)
    IN  IF f.res # "Ok" THEN [w |-> f.w, res |-> "panic"]
        ELSE IF e.res # "Ok" THEN [w |-> e.w, res |-> "panic"]
        ELSE [w |-> e.w, res |-> "ok"]

IdleAw == aw = NewArrow(0)

IdleTw ==
    /\ twst = "none"
    /\ twop = NoOp
    /\ inserted = 0
    /\ handle = FALSE

\* An ArrowTableWriter that new() has returned.
InitAw ==
    /\ \E thr \in RowThresholds : aw = NewArrow(thr)
    /\ twst = "open"
    /\ twop = NoOp
    /\ inserted = 0
    /\ handle = FALSE

aw_builder(o) ==
    /\ twst = "open"
    /\ \E r \in {arrow_builder([aw EXCEPT !.nfl = 0, !.nfin = 0], o)} :
           /\ aw' = r.w
           /\ handle' = (r.res = "Ok")
           /\ twop' = [NoOp EXCEPT !.name = "builder", !.res = r.res,
                                   !.prelen = aw.len, !.nfl = r.w.nfl]
    /\ UNCHANGED <<pq, twst, inserted>>

aw_insert ==
    /\ twst = "open"
    /\ handle
    /\ inserted < MaxRows
    /\ aw' = [aw EXCEPT !.len = @ + 1]
    /\ inserted' = inserted + 1
    /\ twop' = [NoOp EXCEPT !.name = "insert", !.res = "Ok", !.prelen = aw.len]
    /\ UNCHANGED <<pq, twst, handle>>

aw_flush(o) ==
    /\ twst = "open"
    /\ \E r \in {arrow_flush([aw EXCEPT !.nfl = 0, !.nfin = 0], o)} :
           /\ aw' = r.w
           /\ twop' = [NoOp EXCEPT !.name = "flush", !.res = r.res,
                                   !.prelen = aw.len, !.nfl = r.w.nfl]
    /\ handle' = FALSE
    /\ UNCHANGED <<pq, twst, inserted>>

\* The caller closes the writer: close(mut self), then the drop of self at
\* the end of close.
aw_close(o, c, o2, c2) ==
    /\ twst = "open"
    /\ \E r \in {arrow_close([aw EXCEPT !.nfl = 0, !.nfin = 0], o, c)} :
        \E d \in {arrow_drop([r.w EXCEPT !.nfl = 0, !.nfin = 0], o2, c2)} :
           /\ aw' = d.w
           /\ twst' = IF d.res = "panic" THEN "panicked" ELSE "closed"
           /\ twop' = [NoOp EXCEPT !.name = "close", !.res = r.res,
                                   !.prelen = aw.len, !.nfl = r.w.nfl,
                                   !.dres = d.res, !.dnfl = d.w.nfl,
                                   !.dfin = d.w.nfin]
    /\ handle' = FALSE
    /\ UNCHANGED <<pq, inserted>>

\* The writer is discarded without close.
aw_drop(o, c) ==
    /\ twst = "open"
    /\ \E d \in {arrow_drop([aw EXCEPT !.nfl = 0, !.nfin = 0], o, c)} :
           /\ aw' = d.w
           /\ twst' = IF d.res = "panic" THEN "panicked" ELSE "dropped"
           /\ twop' = [NoOp EXCEPT !.name = "drop", !.res = "none",
                                   !.prelen = aw.len, !.dres = d.res,
                                   !.dnfl = d.w.nfl, !.dfin = d.w.nfin]
    /\ handle' = FALSE
    /\ UNCHANGED <<pq, inserted>>

(* -------- ParallelDatasetWriter over ParquetTableWriter sinks --------- *)

NoConfig == [r |-> 0, b |-> NoVal, m |-> 1]

\* No parallel writer over Parquet sinks is the subject of the run.
IdleE2e ==
    /\ config = NoConfig
    /\ sink = <<>>

\* ParallelDatasetWriter::with_schema(path, schema) with a config that sets
\* the auto-flush row-group length and the target row-group size.
InitE2e ==
    /\ \E r \in RowThresholds, m \in GroupSizes :
           config = [r |-> r, b |-> NoVal, m |-> m]
    /\ sink = <<>>

\* W::new for the writer numbered n: ParquetTableWriter::new on <path>/<n>.
NewSink(n) ==
    [w |-> new_file_writer(NewParquet(u64_to_string(n), config.r, config.b,
                                      config.m), "ok").w,
     n |-> 0, meta |-> NoVal]

\* Thread t calls get_thread_writer()?.builder()?: the writer of its slot,
\* made first when the slot is empty, then that writer's builder().
e2e_builder(t) ==
    /\ pdw = "live"
    /\ th[t].st = "run"
    /\ th[t].pc = "idle"
    /\ IF Lookup(t)
       THEN /\ sink[SlotOf(t)].n < MaxRows
            /\ sink' = [sink EXCEPT ![SlotOf(t)].w =
                           builder([@ EXCEPT !.nfl = 0], "ok", "ok").w]
            /\ th' = [th EXCEPT ![t].pc = "insert"]
            /\ UNCHANGED <<num_files, writers, free_from, free_list>>
       ELSE /\ num_files < MaxSeq
            /\ num_files' = FetchAdd(num_files)
            /\ writers' = writers \cup {SlotOf(t)}
            /\ sink' = [s \in DOMAIN sink \cup {SlotOf(t)} |->
                          IF s = SlotOf(t)
                          THEN [NewSink(num_files) EXCEPT !.w =
                                   builder([@ EXCEPT !.nfl = 0], "ok", "ok").w]
                          ELSE sink[s]]
            /\ th' = [th EXCEPT ![t].tid = SlotOf(t), ![t].pc = "insert"]
            /\ ThreadIdAllocated(t)
    /\ UNCHANGED <<pool, files, ncreated, issued, pdw, fan, closeret,
                   lastcall, config>>

\* Thread t appends one row of b bytes to the builder it was handed.
e2e_insert(t, b) ==
    /\ pdw = "live"
    /\ th[t].pc = "insert"
    /\ sink' = [sink EXCEPT ![th[t].tid].w.len = @ + 1,
                            ![th[t].tid].w.bytes = @ + b,
                            ![th[t].tid].n = @ + 1]
    /\ th' = [th EXCEPT ![t].pc = "idle"]
    /\ UNCHANGED <<num_files, writers, pool, files, ncreated, issued,
                   free_from, free_list, pdw, fan, closeret, lastcall, config>>

\* close(mut self) once every thread has inserted its rows.
e2e_close_begin ==
    /\ pdw = "live"
    /\ \A t \in Threads :
           th[t].pc = "idle" /\ Lookup(t) /\ sink[SlotOf(t)].n >= 1
    /\ pdw' = "closing"
    /\ writers' = SwapLeaves(writers)
    /\ fan' = StartFan("close", writers)
    /\ UNCHANGED <<num_files, pool, files, ncreated, issued, th, free_from,
                   free_list, closeret, lastcall, config, sink>>

\* One task of the parallel iterator closes the writer of slot s; the
\* consumed writer is dropped at the end of its close.
e2e_close_visit(s) ==
    /\ pdw = "closing"
    /\ s \in fan.pending
    /\ \E r \in {close([sink[s].w EXCEPT !.nfl = 0], "ok", "ok")} :
           sink' = [sink EXCEPT ![s].w = drop(r.w, "ok", "ok").w,
                                ![s].meta = r.meta]
    /\ fan' = [fan EXCEPT !.pending = @ \ {s}, !.nres = @ + 1]
    /\ UNCHANGED <<num_files, writers, pool, files, ncreated, issued, th,
                   free_from, free_list, pdw, closeret, lastcall, config>>

\* close returns the collected results; Drop finds no writer left.
e2e_close_return ==
    /\ pdw = "closing"
    /\ fan.pending = {}
    /\ closeret' = "Ok"
    /\ pdw' = Expect(fan.err)
    /\ UNCHANGED <<num_files, writers, pool, files, ncreated, issued, th,
                   free_from, free_list, fan, lastcall, config, sink>>

(* ----------------------- partitioned writers ------------------------- *)

\* A path is the sequence of its components, a component the sequence of
\* the pieces format! puts together.
WriterPath == << <<"dir">>, <<"0">> >>
RootPath == <<>>
InPaths == {WriterPath, RootPath}
Column == "col"
\* Partition keys are strings, here sequences of characters; a key may hold
\* the path separator.
Keys == {<<"a">>, <<"A">>, <<"a", "/">>}
NumPartitions == {NoVal} \cup (1..MaxPartitions)
NewOutcomes == {"ok", "dir_err", "fail_nofile", "fail_file"}

\* Path::pop: the path without its last component; false on a path that
\* has none.
Pop(path) == IF path = <<>> THEN <<>> ELSE SubSeq(path, 1, Len(path) - 1)
PopOk(path) == path # <<>>
FileName(path) == path[Len(path)]

NoFlushCall == [key |-> NoVal, res |-> "none", id |-> NoVal, made |-> FALSE]

NoPt == [kind |-> "none", st |-> "absent", path |-> <<>>, thread_id |-> <<>>,
         n |-> NoVal, writers |-> <<>>, dirs |-> {}, files |-> {},
         ncreate |-> 0, nid |-> 0, nfail |-> 0, ret |-> "none",
         last |-> NoFlushCall]

IdlePt == pt = NoPt

\* The sub-writer W::new(path, ..) returned, numbered id.
SubWriter(id, path) ==
    [id |-> id, path |-> path, flushes |-> 0, closes |-> 0, ok |-> TRUE,
     dropped |-> FALSE]

\* U16PartitionedTableWriter::new: the number of sub-writers and the
\* directory of sub-writer i.
NumSubWritersAlwaysN(n) == IF n = NoVal THEN 0 ELSE n
NumSubWriters(n) == IF n = NoVal THEN 1 ELSE n
PartitionDir(path, n, i) ==
    IF n # NoVal THEN Append(path, <<Column, "=">> \o u64_to_string(i))
    ELSE path

\* U16PartitionedTableWriter::new(path, (column, n, schema), config); the
\* sub-writers are made in order, and the one numbered failat (if any) fails
\* with outcome o: in create_dir_all, or in W::new before or after its file
\* is created. The sub-writers made before it are dropped with the error.
u16_new(path, n, failat, o) ==
    /\ pt.st = "absent"
    /\ failat \in {NoVal} \cup (0..(NumSubWriters(n) - 1))
    /\ (failat = NoVal) = (o = "ok")
    /\ IF ~PopOk(path)
       THEN /\ failat = NoVal
            /\ pt' = [pt EXCEPT !.kind = "u16", !.st = "failed", !.n = n,
                                !.ret = "Err"]
       ELSE LET base == Pop(path)
                last == IF failat = NoVal THEN NumSubWriters(n) - 1
                        ELSE failat
                made == IF failat = NoVal THEN 0..last ELSE 0..(last - 1)
                withdir == IF o = "dir_err" THEN made ELSE 0..last
                withfile == IF o = "fail_file" THEN 0..last ELSE made
                fpath(i) == Append(PartitionDir(base, n, i), FileName(path))
            IN  pt' = [pt EXCEPT
                    !.kind = "u16",
                    !.st = IF failat = NoVal THEN "live" ELSE "failed",
                    !.ret = IF failat = NoVal THEN "Ok" ELSE "Err",
                    !.path = base,
                    !.thread_id = FileName(path),
                    !.n = n,
                    !.dirs = {PartitionDir(base, n, i) : i \in withdir},
                    !.files = {fpath(i) : i \in withfile},
                    !.ncreate = Cardinality(withfile),
                    !.nfail = IF failat = NoVal THEN 0 ELSE 1,
                    !.writers = IF failat = NoVal
                                THEN [i \in made |-> SubWriter(i, fpath(i))]
                                ELSE <<>>]

\* Utf8PartitionedTableWriter::new(path, (column, schema), config).
utf8_new(path) ==
    /\ pt.st = "absent"
    /\ pt' = IF PopOk(path)
             THEN [pt EXCEPT !.kind = "utf8", !.st = "live", !.ret = "Ok",
                             !.path = Pop(path),
                             !.thread_id = FileName(path)]
             ELSE [pt EXCEPT !.kind = "utf8", !.st = "failed", !.ret = "Err"]

\* The components of a relative path given as a string: the pieces between
\* separators, without the empty ones (a repeated or trailing separator adds
\* no component, and paths are equal when their components are).
RECURSIVE Components(_)
Components(s) ==
    IF s = <<>> THEN <<>>
    ELSE IF Head(s) = "/" THEN Components(Tail(s))
    ELSE LET seps == {i \in 1..Len(s) : s[i] = "/"}
             n == IF seps = {} THEN Len(s) + 1
                  ELSE CHOOSE i \in seps : \A j \in seps : i <= j
         IN  <<SubSeq(s, 1, n - 1)>> \o Components(SubSeq(s, n + 1, Len(s)))

\* Path::join of a relative path given as a string.
PathJoin(path, s) == path \o Components(s)

\* The directory of the partition of a key:
\* path.join(format!("{}={}", partition_column, key)).
KeyDir(path, key) == PathJoin(path, <<Column, "=">> \o key)

\* HashMap::entry(key): occupied when the registry holds the key.
EntryAlwaysVacant(ws, key) == FALSE
EntryOccupied(ws, key) == key \in DOMAIN ws

\* entry.insert(PartitionWriter::new(..)?): the `?` returns the error of
\* new before the insert is reached, so the registry gains the key only
\* when the sub-writer was created.
EntryInsertBeforeNew(ws, key, w, created) ==
    [k \in DOMAIN ws \cup {key} |-> IF k = key THEN w ELSE ws[k]]
EntryInsert(ws, key, w, created) ==
    IF created
    THEN [k \in DOMAIN ws \cup {key} |-> IF k = key THEN w ELSE ws[k]]
    ELSE ws

\* Utf8PartitionedTableWriter::partition(key), with outcome o of the
\* creation of a missing sub-writer.
partition(key, o) ==
    /\ pt.kind = "utf8"
    /\ pt.st = "live"
    /\ IF EntryOccupied(pt.writers, key)
       THEN /\ o = "ok"
            /\ pt' = [pt EXCEPT !.last = [key |-> key, res |-> "Ok",
                                          id |-> pt.writers[key].id,
                                          made |-> FALSE]]
       ELSE LET dir == KeyDir(pt.path, key)
                file == Append(dir, pt.thread_id)
            IN  IF o = "dir_err"
                THEN pt' = [pt EXCEPT !.nfail = @ + 1,
                                      !.last = [key |-> key, res |-> "Err",
                                                id |-> NoVal, made |-> FALSE]]
                ELSE IF o = "fail_nofile"
                THEN pt' = [pt EXCEPT !.nfail = @ + 1,
                                      !.dirs = @ \cup {dir},
                                      !.writers = EntryInsert(@, key,
                                          SubWriter(pt.nid, file), FALSE),
                                      !.last = [key |-> key, res |-> "Err",
                                                id |-> NoVal, made |-> FALSE]]
                ELSE IF o = "fail_file"
                THEN pt' = [pt EXCEPT !.nfail = @ + 1,
                                      !.dirs = @ \cup {dir},
                                      !.files = @ \cup {file},
                                      !.ncreate = @ + 1,
                                      !.writers = EntryInsert(@, key,
                                          SubWriter(pt.nid, file), FALSE),
                                      !.last = [key |-> key, res |-> "Err",
                                                id |-> NoVal, made |-> TRUE]]
                ELSE pt' = [pt EXCEPT
                         !.dirs = @ \cup {dir},
                         !.files = @ \cup {file},
                         !.ncreate = @ + 1,
                         !.nid = @ + 1,
                         !.writers = EntryInsert(@, key,
                                         SubWriter(pt.nid, file), TRUE),
                         !.last = [key |-> key, res |-> "Ok", id |-> pt.nid,
                                   made |-> TRUE]]

PartitionChoices(key) ==
    IF pt.kind # "utf8" THEN {}
    ELSE IF EntryOccupied(pt.writers, key) \/ pt.nfail >= MaxFailures
    THEN {"ok"}
    ELSE NewOutcomes

\* flush(&mut self) of either partitioned writer: par_iter_mut over the
\* sub-writers, try_for_each(flush).
pt_flush_begin ==
    /\ pt.st = "live"
    /\ pt' = [pt EXCEPT !.st = "flushing", !.last = NoFlushCall,
                        !.ret = "none",
                        !.writers = [k \in DOMAIN pt.writers |->
                                        [pt.writers[k] EXCEPT !.flushes = 0,
                                                              !.ok = TRUE]]]
    /\ fan' = StartFan("flush", DOMAIN pt.writers)

\* close(self) of either partitioned writer: into_par_iter over the
\* sub-writers, map(close), collect into a Result.
pt_close_begin ==
    /\ pt.st = "live"
    /\ pt' = [pt EXCEPT !.st = "closing", !.last = NoFlushCall,
                        !.ret = "none"]
    /\ fan' = StartFan("close", DOMAIN pt.writers)

\* One task of the parallel iterator runs the closure on sub-writer k.
pt_visit(k, ok) ==
    /\ pt.st \in {"flushing", "closing"}
    /\ k \in fan.pending
    /\ pt' = IF fan.kind = "flush"
             THEN [pt EXCEPT !.writers[k].flushes = @ + 1,
                             !.writers[k].ok = ok]
             ELSE [pt EXCEPT !.writers[k].closes = @ + 1,
                             !.writers[k].ok = ok]
    /\ fan' = [fan EXCEPT !.pending = @ \ {k},
                          !.err = @ \/ ~ok,
                          !.nres = IF ok THEN @ + 1 ELSE @]

\* try_for_each and collect into a Result stop handing out items once one
\* closure has returned Err; in close the skipped sub-writer is dropped.
pt_skip(k) ==
    /\ pt.st \in {"flushing", "closing"}
    /\ k \in fan.pending
    /\ fan.err
    /\ pt' = IF fan.kind = "flush" THEN pt
             ELSE [pt EXCEPT !.writers[k].dropped = TRUE]
    /\ fan' = [fan EXCEPT !.pending = @ \ {k}]

\* flush or close returns: Ok, or the error that was kept.
pt_return ==
    /\ pt.st \in {"flushing", "closing"}
    /\ fan.pending = {}
    /\ pt' = [pt EXCEPT !.st = IF fan.kind = "flush" THEN "live"
                               ELSE "closed",
                        !.ret = IF fan.err THEN "Err" ELSE "Ok"]
    /\ UNCHANGED fan

ptFrame == UNCHANGED <<num_files, writers, pool, files, ncreated, issued, th,
                       free_from, free_list, pdw, closeret, lastcall>>

(* --------- the flushes of one ParquetTableWriter, counted ------------- *)

\* flushes: the calls of flush() that returned Ok; nonempty: those that
\* found rows in the builder; oversize: one of them found more rows than
\* max_row_group_size.
NoFlushes == [flushes |-> 0, nonempty |-> 0, oversize |-> FALSE]

IdleRl == rl = NoFlushes

\* The flushes of the operation that the step performs: builder()'s,
\* flush()'s or close()'s, the first of which gets the rows buffered.
CountFlushes ==
    /\ rl.flushes + twop'.nfl <= MaxFlushes
    /\ rl' = [flushes |-> rl.flushes + twop'.nfl,
              nonempty |-> IF twop'.nfl > 0 /\ pq.len > 0
                           THEN rl.nonempty + 1 ELSE rl.nonempty,
              oversize |-> rl.oversize \/ (twop'.nfl > 0 /\ pq.len > pq.m)]

\* A ParquetTableWriter without byte threshold that new() has returned.
InitRollover ==
    /\ InitPar /\ IdleAw /\ IdleE2e /\ IdlePt /\ IdleRl
    /\ InitPq
    /\ pq.b = NoVal

\* The operations of the writer, every one succeeding.
NextRollover ==
    \/ pq_builder("ok", "ok") /\ CountFlushes
          /\ UNCHANGED <<parVars, e2eVars, ptVars>>
    \/ (\E b \in RowBytes : pq_insert(b))
          /\ UNCHANGED <<parVars, e2eVars, ptVars, rlVars>>
    \/ pq_flush("ok") /\ CountFlushes
          /\ UNCHANGED <<parVars, e2eVars, ptVars>>
    \/ pq_close("ok", "ok", "ok", "ok") /\ CountFlushes
          /\ UNCHANGED <<parVars, e2eVars, ptVars>>

SpecRollover == InitRollover /\ [][NextRollover]_vars

Init == InitPar /\ IdlePq /\ IdleAw /\ IdleTw /\ IdleE2e /\ IdlePt /\ IdleRl

Next ==
    \/ (\E t \in Threads : get_thread_writer(t)) /\ UNCHANGED <<twVars, e2eVars, ptVars, rlVars>>
    \/ (\E t \in Threads, o \in CreateOutcomes : get_new_seq_writer(t, o))
          /\ UNCHANGED <<twVars, e2eVars, ptVars, rlVars>>
    \/ (\E t \in Threads : ReleaseRef(t)) /\ UNCHANGED <<twVars, e2eVars, ptVars, rlVars>>
    \/ (\E t \in Threads : ThreadExit(t)) /\ UNCHANGED <<twVars, e2eVars, ptVars, rlVars>>
    \/ flush_begin /\ UNCHANGED <<twVars, e2eVars, ptVars, rlVars>>
    \/ (\E s \in fan.pending, ok \in BOOLEAN : fan_visit(s, ok))
          /\ UNCHANGED <<twVars, e2eVars, ptVars, rlVars>>
    \/ (\E s \in fan.pending : fan_skip(s)) /\ UNCHANGED <<twVars, e2eVars, ptVars, rlVars>>
    \/ flush_return /\ UNCHANGED <<twVars, e2eVars, ptVars, rlVars>>
    \/ close_begin /\ UNCHANGED <<twVars, e2eVars, ptVars, rlVars>>
    \/ close_return /\ UNCHANGED <<twVars, e2eVars, ptVars, rlVars>>
    \/ drop_begin /\ UNCHANGED <<twVars, e2eVars, ptVars, rlVars>>
    \/ drop_end /\ UNCHANGED <<twVars, e2eVars, ptVars, rlVars>>

Spec == Init /\ [][Next]_vars

IdlePar == InitPar

InitParquet == IdlePar /\ InitPq /\ IdleAw /\ IdleE2e /\ IdlePt /\ IdleRl

\* The I/O outcomes a flush of writer w can meet: a failure is offered only
\* where the flush runs the failing call.
FlushChoices(w) ==
    IF pq.nfail >= MaxFailures THEN {"ok"}
    ELSE {"ok", "finish_err"}
           \cup (IF w.fw = NoVal THEN {}
                 ELSE {"write_err", "flush_err"}
                        \cup (IF flush(w, "ok").w.nwf # w.nwf
                              THEN {"roll_close_err", "roll_create_err",
                                    "roll_writer_err"}
                              ELSE {}))
FirstChoices(w) ==
    IF RowThresholdReached(w.len, w.r) THEN FlushChoices(w) ELSE {"ok"}
SecondChoices(w, o1) ==
    LET first == builder_rows(w, o1)
    IN  IF first.res = "Ok" /\ ByteThresholdReached(first.w.bytes, w.b)
        THEN FlushChoices(first.w)
        ELSE {"ok"}
CloseChoices(w, o) ==
    IF pq.nfail < MaxFailures /\ flush(w, o).res = "Ok" THEN CloseOutcomes
    ELSE {"ok"}
DropFlushChoices(w) == IF DropGuard(w) THEN FlushChoices(w) ELSE {"ok"}
DropCloseChoices(w, o) ==
    IF pq.nfail < MaxFailures /\ DropGuard(w) /\ flush(w, o).res = "Ok"
    THEN CloseOutcomes
    ELSE {"ok"}

NextParquet ==
    \/ (\E o1 \in FirstChoices(pq) : \E o2 \in SecondChoices(pq, o1) :
           pq_builder(o1, o2)) /\ UNCHANGED <<parVars, e2eVars, ptVars, rlVars>>
    \/ (\E b \in RowBytes : pq_insert(b)) /\ UNCHANGED <<parVars, e2eVars, ptVars, rlVars>>
    \/ (\E o \in FlushChoices(pq) : pq_flush(o)) /\ UNCHANGED <<parVars, e2eVars, ptVars, rlVars>>
    \/ (\E o \in FlushChoices(pq) : \E c \in CloseChoices(pq, o) :
           \E o2 \in DropFlushChoices(close(pq, o, c).w) :
              \E c2 \in DropCloseChoices(close(pq, o, c).w, o2) :
                 pq_close(o, c, o2, c2)) /\ UNCHANGED <<parVars, e2eVars, ptVars, rlVars>>
    \/ (\E o \in DropFlushChoices(pq) : \E c \in DropCloseChoices(pq, o) :
           pq_drop(o, c)) /\ UNCHANGED <<parVars, e2eVars, ptVars, rlVars>>

SpecParquet == InitParquet /\ [][NextParquet]_vars

InitArrow == IdlePar /\ IdlePq /\ InitAw /\ IdleE2e /\ IdlePt /\ IdleRl

NextArrow ==
    \/ (\E o \in ArrowFlushOutcomes : aw_builder(o)) /\ UNCHANGED <<parVars, e2eVars, ptVars, rlVars>>
    \/ aw_insert /\ UNCHANGED <<parVars, e2eVars, ptVars, rlVars>>
    \/ (\E o \in ArrowFlushOutcomes : aw_flush(o)) /\ UNCHANGED <<parVars, e2eVars, ptVars, rlVars>>
    \/ (\E o, o2 \in ArrowFlushOutcomes, c, c2 \in CloseOutcomes :
           aw_close(o, c, o2, c2)) /\ UNCHANGED <<parVars, e2eVars, ptVars, rlVars>>
    \/ (\E o \in ArrowFlushOutcomes, c \in CloseOutcomes : aw_drop(o, c))
          /\ UNCHANGED <<parVars, e2eVars, ptVars, rlVars>>

SpecArrow == InitArrow /\ [][NextArrow]_vars

InitEndToEnd == InitPar /\ IdlePq /\ IdleAw /\ IdleTw /\ InitE2e /\ IdlePt /\ IdleRl

NextEndToEnd ==
    \/ (\E t \in Threads : e2e_builder(t)) /\ UNCHANGED <<twVars, ptVars, rlVars>>
    \/ (\E t \in Threads, b \in RowBytes : e2e_insert(t, b))
          /\ UNCHANGED <<twVars, ptVars, rlVars>>
    \/ e2e_close_begin /\ UNCHANGED <<twVars, ptVars, rlVars>>
    \/ (\E s \in fan.pending : e2e_close_visit(s)) /\ UNCHANGED <<twVars, ptVars, rlVars>>
    \/ e2e_close_return /\ UNCHANGED <<twVars, ptVars, rlVars>>

SpecEndToEnd == InitEndToEnd /\ [][NextEndToEnd]_vars

InitPartitioned == InitPar /\ IdlePq /\ IdleAw /\ IdleTw /\ IdleE2e /\ IdlePt /\ IdleRl

NextPartitioned ==
    \/ (\E path \in InPaths, n \in NumPartitions,
          failat \in {NoVal} \cup (0..(MaxPartitions - 1)),
          o \in NewOutcomes :
           u16_new(path, n, failat, o) /\ UNCHANGED fan)
          /\ ptFrame /\ UNCHANGED <<twVars, e2eVars, rlVars>>
    \/ (\E path \in InPaths : utf8_new(path) /\ UNCHANGED fan)
          /\ ptFrame /\ UNCHANGED <<twVars, e2eVars, rlVars>>
    \/ (\E key \in Keys : \E o \in PartitionChoices(key) :
           partition(key, o) /\ UNCHANGED fan)
          /\ ptFrame /\ UNCHANGED <<twVars, e2eVars, rlVars>>
    \/ pt_flush_begin /\ ptFrame /\ UNCHANGED <<twVars, e2eVars, rlVars>>
    \/ pt_close_begin /\ ptFrame /\ UNCHANGED <<twVars, e2eVars, rlVars>>
    \/ (\E k \in fan.pending, ok \in BOOLEAN : pt_visit(k, ok))
          /\ ptFrame /\ UNCHANGED <<twVars, e2eVars, rlVars>>
    \/ (\E k \in fan.pending : pt_skip(k))
          /\ ptFrame /\ UNCHANGED <<twVars, e2eVars, rlVars>>
    \/ pt_return /\ ptFrame /\ UNCHANGED <<twVars, e2eVars, rlVars>>

SpecPartitioned == InitPartitioned /\ [][NextPartitioned]_vars

(* ------------------- claims: ParallelDatasetWriter -------------------- *)

\* The threads that have been handed a writer.
Served == {t \in Threads : th[t].got # NoVal}

\* The threads holding a live reference to the writer in slot s.
Holders(s) == {t \in Threads : th[t].st = "run" /\ th[t].tid = s /\ th[t].held > 0}

\* C1, as stated: any two distinct threads that were handed a writer were
\* handed writers with distinct sequence numbers (hence distinct files), also
\* when one of them started after the other had exited.
C1_DistinctThreadsDistinctWriters ==
    \A t1, t2 \in Served : t1 # t2 => th[t1].got # th[t2].got

\* C1, amended: two threads that are alive at the same time and were each
\* handed a writer hold distinct sequence numbers and distinct files, every
\* File::create made a new file, and the writers of the registry have pairwise
\* distinct sequence numbers; the registry never holds more writers than
\* threads were served.
C1_LiveThreadsDistinctWriters ==
    /\ \A t1, t2 \in Served :
         (t1 # t2 /\ th[t1].st = "run" /\ th[t2].st = "run") =>
            /\ th[t1].got # th[t2].got
            /\ SeqPath(th[t1].got) # SeqPath(th[t2].got)
            /\ {SeqPath(th[t1].got), SeqPath(th[t2].got)} \subseteq files
    /\ \A s1, s2 \in DOMAIN pool : s1 # s2 => pool[s1].seq # pool[s2].seq
    /\ Cardinality(files) = ncreated
    /\ Cardinality(DOMAIN pool) <= Cardinality(Served)

\* C1, witness: all threads are alive and each was handed its own writer.
C1_Witness ==
    /\ \A t \in Threads : th[t].st = "run" /\ th[t].got # NoVal
    /\ Cardinality(DOMAIN pool) = NumThreads

\* C2: every writer is borrowed by at most one thread and at most once, the
\* RefCell's flag says so, and a call that returned a reference was made by a
\* thread that held none.
C2_ExclusiveBorrow ==
    /\ \A t \in Threads : th[t].held <= 1
    /\ \A s \in DOMAIN pool :
         /\ Cardinality(Holders(s)) <= 1
         /\ pool[s].borrow <=> (Holders(s) # {})
    /\ lastcall.res \in {"first", "again"} =>
         /\ th[lastcall.t].held = 1
         /\ Holders(th[lastcall.t].tid) = {lastcall.t}

\* C2, witness: a thread called get_thread_writer while it still held its
\* reference, and panicked.
C2_Witness == lastcall.res = "panic"

\* C3: a get_thread_writer call by a thread that was already handed a writer
\* returns that same writer (or panics on a live reference), and changes
\* neither the sequence counter nor the files created.
C3_SameInstance ==
    [][\A t \in Threads :
         (th[t].got # NoVal /\ get_thread_writer(t)) =>
            /\ lastcall'.t = t
            /\ lastcall'.res \in {"again", "panic"}
            /\ th[t].held = 0 => lastcall'.res = "again"
            /\ lastcall'.res = "again" => lastcall'.w = th[t].got
            /\ num_files' = num_files
            /\ issued' = issued
            /\ files' = files
            /\ ncreated' = ncreated
            /\ writers' = writers]_vars

\* C3, witness: a thread was handed its writer a second time.
C3_Witness ==
    /\ lastcall.res = "again"
    /\ lastcall.w = th[lastcall.t].got

\* The sequence numbers taken by get_new_seq_writer calls still in W::new.
InFlightSeqs == {th[t].seq : t \in {u \in Threads : th[u].pc = "creating"}}

\* C4: the sequence numbers issued are exactly 0..k-1 after k allocations,
\* whether or not the writer's creation succeeded, and no number belongs to
\* two writers.
C4_SeqDenseDistinct ==
    /\ Len(issued) = num_files
    /\ \A i \in 1..Len(issued) : issued[i] = i - 1
    /\ \A s1, s2 \in DOMAIN pool : s1 # s2 => pool[s1].seq # pool[s2].seq
    /\ \A s \in DOMAIN pool :
         /\ pool[s].seq \in 0..(num_files - 1)
         /\ pool[s].seq \notin InFlightSeqs
    /\ \A t1, t2 \in Threads :
         (t1 # t2 /\ th[t1].pc = "creating" /\ th[t2].pc = "creating") =>
            th[t1].seq # th[t2].seq

\* C4, witness: three numbers were issued, one of them to a creation that
\* failed, the others to two writers.
C4_Witness ==
    /\ Len(issued) = 3
    /\ Cardinality(DOMAIN pool) = 2
    /\ InFlightSeqs = {}

\* C5, as stated: a flush-all that is about to return has called flush exactly
\* once on every writer that was allocated when it was called.
C5_FlushAllVisitsEveryWriterOnce ==
    (pdw = "flushing" /\ fan.pending = {}) =>
        \A s \in fan.targets : pool[s].flushes = 1

C7_DropClosesAllOrPanics ==
    (closeret = "none" /\ pdw \in {"dropped", "panicked"}) =>
        /\ pdw = "dropped" =>
             \A s \in DOMAIN pool :
                pool[s].closes = 1 /\ pool[s].closeok /\ ~pool[s].dropped
        /\ pdw = "panicked" <=>
             \E s \in DOMAIN pool : pool[s].closes = 1 /\ ~pool[s].closeok
        /\ \A s \in DOMAIN pool : pool[s].closes = 1 \/ pool[s].dropped

\* C7, witness: the writer was discarded without close-all, the close of one of
\* its two writers failed, and the teardown panicked.
C7_Witness ==
    /\ closeret = "none"
    /\ pdw = "panicked"
    /\ Cardinality(DOMAIN pool) = 2


(* ------------------- Claims: the format table writers ------------------- *)

\* C8 (as stated): close-once.  After an explicit close() that returned Ok,
\* the Drop that runs when the consumed writer is discarded is a no-op: it
\* calls flush no second time and finalizes the file no second time.
C8_CloseThenDropIsNoop ==
    (twop.name = "close" /\ twop.res = "Ok")
        => (twop.dres = "noop" /\ twop.dnfl = 0 /\ twop.dfin = 0)

\* C9 (as stated): threshold correctness.  For every row threshold R, with or
\* without a byte threshold, a builder() call that finds exactly R rows
\* buffered flushes exactly once and leaves fewer than R rows buffered.
C9_ThresholdFlushOnceAnyR ==
    (twop.name = "builder" /\ twop.res = "Ok" /\ twop.prelen = pq.r)
        => (twop.nfl = 1 /\ pq.len < pq.r)

\* C9 (amended): threshold correctness for non-degenerate thresholds.  For
\* every row threshold R >= 1, with no byte threshold or a byte threshold
\* >= 1, a builder() call that finds exactly R rows buffered flushes exactly
\* once and leaves fewer than R rows buffered.
C9_ThresholdFlushOnce ==
    (/\ twop.name = "builder"
     /\ twop.res = "Ok"
     /\ twop.prelen = pq.r
     /\ pq.r >= 1
     /\ (pq.b = NoVal \/ pq.b >= 1))
        => (twop.nfl = 1 /\ pq.len < pq.r)

\* A builder() call found R >= 1 rows, a byte threshold being configured,
\* and flushed.
C9_Witness ==
    /\ twop.name = "builder"
    /\ twop.res = "Ok"
    /\ twop.prelen = pq.r
    /\ pq.r >= 1
    /\ pq.b # NoVal
    /\ pq.b >= 1
    /\ twop.nfl = 1

\* The rows readable from the files on disk.
RECURSIVE RowsOnDisk(_)
RowsOnDisk(fs) ==
    IF fs = <<>> THEN 0
    ELSE (IF Head(fs).live THEN SumSeq(Head(fs).groups) ELSE 0)
             + RowsOnDisk(Tail(fs))

\* C10 (as stated): row conservation.  After builder()/insertions/flushes
\* and a close() that all succeeded, the rows in all physical files of the
\* writer (the first file and every rollover file) sum to the rows inserted.
C10_RowConservation ==
    (twst = "closed" /\ twop.res = "Ok" /\ pq.nfail = 0)
        => RowsOnDisk(pq.fs) = inserted


\* The file name without its extension, and the name the k-th physical file
\* of a logical writer is to have: the base name for k = 0, the base name
\* with _k before the extension for k >= 1.
Stem(name) ==
    IF DotsOf(name) = {} THEN name ELSE SubSeq(name, 1, LastDot(name) - 1)
KthFileName(base, k) ==
    IF k = 0 THEN Stem(base) \o <<".", "parquet">>
    ELSE Stem(base) \o <<"_">> \o u64_to_string(k) \o <<".", "parquet">>

\* C11 (as stated): rollover naming and order.  The k-th physical file a
\* writer created is named by the base name (k = 0) or the base name with _k
\* before the extension (k >= 1); only the file created last can be open,
\* and every file before it was closed once before the next was created.
C11_RolloverNamingAndOrder ==
    /\ \A k \in 0..(Len(pq.fs) - 1) :
           pq.fs[k + 1].path = KthFileName(pq.base, k)
    /\ \A i \in 1..(Len(pq.fs) - 1) : pq.fs[i].fin = 1 /\ pq.fw # i
    /\ pq.fw # NoVal => pq.fw = Len(pq.fs)


\* The rows written to the physical files a writer created.
RECURSIVE RowsWritten(_)
RowsWritten(fs) ==
    IF fs = <<>> THEN 0 ELSE SumSeq(Head(fs).groups) + RowsWritten(Tail(fs))

\* C12 (as stated): the result of a successful close() reports the rows
\* written to all physical files of the writer, the files closed earlier by
\* rollover included.
C12_CloseResultAggregated ==
    (twop.name = "close" /\ twop.res = "Ok")
        => twop.meta = RowsWritten(pq.fs)


\* C14 (as stated): a failure of an explicit close() is surfaced as an error
\* value.  close() returns Ok only when the file it closed was finalized,
\* and when close() fails in its last flush or in finalizing the file, the
\* caller gets the Err: the drop of the consumed writer raises no panic.
C14_CloseFailureSurfaced ==
    twop.name = "close"
        => /\ twop.res = "Ok" => pq.fs[Len(pq.fs)].fin = 1
           /\ twop.res = "Err" => twop.dres # "panic"

\* A builder() step: one flush when a threshold was reached at the call, no
\* flush and the file and the builder as they were when none was.
BuilderFlushesOnce ==
    twop'.name = "builder"
        => IF pq.len >= pq.r \/ (pq.b # NoVal /\ pq.bytes >= pq.b)
           THEN twop'.nfl = 1
           ELSE /\ twop'.nfl = 0
                /\ pq'.fs = pq.fs
                /\ pq'.len = pq.len
                /\ pq'.bytes = pq.bytes

\* C18 (as stated): in every reachable state, one call to builder() performs
\* exactly one flush when the buffered rows have reached the row threshold
\* or the buffered bytes the configured byte threshold, and no flush, the
\* file and the builder unchanged, when neither has; never two flushes.
C18_BuilderFlushesOnceAnyConfig == [][BuilderFlushesOnce]_vars

\* C18 (amended): the same for a byte threshold that is absent or >= 1.
C18_BuilderFlushesOnce ==
    [][(pq.b = NoVal \/ pq.b >= 1) => BuilderFlushesOnce]_vars

\* builder() flushed because of the byte threshold alone.
C18_Witness ==
    /\ twop.name = "builder"
    /\ twop.res = "Ok"
    /\ twop.nfl = 1
    /\ twop.prelen < pq.r
    /\ pq.b # NoVal
    /\ pq.b >= 1

\* C19 (as stated): no physical file written by a ParquetTableWriter ever
\* holds more row groups than the per-file cap, also after flushes whose
\* batch was split into several row groups.
C19_RowGroupCap ==
    \A i \in 1..Len(pq.fs) : Len(pq.fs[i].groups) <= MaxRowGroups

\* The row groups in the files on disk, and the row groups written to the
\* files the writer created.
RECURSIVE GroupsOnDisk(_)
GroupsOnDisk(fs) ==
    IF fs = <<>> THEN 0
    ELSE (IF Head(fs).live THEN Len(Head(fs).groups) ELSE 0)
             + GroupsOnDisk(Tail(fs))
RECURSIVE GroupsWritten(_)
GroupsWritten(fs) ==
    IF fs = <<>> THEN 0 ELSE Len(Head(fs).groups) + GroupsWritten(Tail(fs))

C21_FileWriterNeverNone ==
    /\ twst = "open" => pq.fw # NoVal
    /\ twop.name \in {"builder", "flush"} => twop.res # "panic"

(* ------------- Claims: the parallel writer over Parquet sinks ---------- *)

\* The file of the writer in slot s holds ceil(n/R) row groups, all of R rows
\* but the last, which holds the remaining rows, and the close result of the
\* writer reports its n rows.
FlushPattern(s) ==
    /\ Len(sink[s].w.fs) = 1
    /\ Len(sink[s].w.fs[1].groups) >= 1
    /\ \A i \in 1..(Len(sink[s].w.fs[1].groups) - 1) :
           sink[s].w.fs[1].groups[i] = config.r
    /\ sink[s].w.fs[1].groups[Len(sink[s].w.fs[1].groups)] \in 1..config.r
    /\ SumSeq(sink[s].w.fs[1].groups) = sink[s].n
    /\ sink[s].meta = sink[s].n

\* T threads that each made a writer: T writers on T distinct paths.
OneFilePerThread ==
    /\ Cardinality(DOMAIN sink) = NumThreads
    /\ \A s1, s2 \in DOMAIN sink :
           s1 # s2 => sink[s1].w.fs[1].path # sink[s2].w.fs[1].path

BucketFile(i) == << <<"dir">>, <<"col", "=">> \o u64_to_string(i), <<"0">> >>
KeyedFile(key) ==
    Append(PathJoin(<< <<"dir">> >>, <<"col", "=">> \o key), <<"0">>)

\* C15: a successfully constructed U16PartitionedTableWriter with
\* num_partitions = N holds exactly N sub-writers, sub-writer i writing to
\* <dir>/<column>=<i>/<file>, every partition directory existing; with
\* num_partitions = None it holds one sub-writer writing to <dir>/<file> and
\* no partition directory was made.
C15_BucketLayout ==
    (pt.kind = "u16" /\ pt.st \notin {"absent", "failed"})
        => IF pt.n # NoVal
           THEN /\ DOMAIN pt.writers = 0..(pt.n - 1)
                /\ \A i \in 0..(pt.n - 1) :
                       /\ pt.writers[i].path = BucketFile(i)
                       /\ SubSeq(BucketFile(i), 1, 2) \in pt.dirs
                       /\ BucketFile(i) \in pt.files
           ELSE /\ DOMAIN pt.writers = {0}
                /\ pt.writers[0].path = << <<"dir">>, <<"0">> >>
                /\ pt.dirs = {<< <<"dir">> >>}

\* A bucket writer with the largest number of partitions was constructed.
C15_Witness ==
    /\ pt.kind = "u16"
    /\ pt.st = "live"
    /\ pt.n = MaxPartitions
    /\ Cardinality(DOMAIN pt.writers) = MaxPartitions

\* The registry of a keyed writer: one sub-writer per key, each on
\* <dir>/<column>=<key>/<file>, no two keys sharing a sub-writer.
KeyedRegistryOk ==
    pt.kind = "utf8"
        => /\ \A k \in DOMAIN pt.writers :
                  /\ pt.writers[k].path = KeyedFile(k)
                  /\ SubSeq(KeyedFile(k), 1, 2) \in pt.dirs
                  /\ KeyedFile(k) \in pt.files
           /\ \A k1, k2 \in DOMAIN pt.writers :
                  k1 # k2 => pt.writers[k1].id # pt.writers[k2].id
           /\ pt.last.res = "Ok" => pt.last.key \in DOMAIN pt.writers

\* A step of partition(key) on a keyed writer: held sub-writers stay, a
\* reference to a held key returns the held sub-writer and creates no file,
\* and the registry grows only by the key just referenced, whose file was
\* created by that reference.
KeyedStepOk ==
    (pt.kind = "utf8" /\ pt.st = "live" /\ pt'.st = "live")
        => /\ \A k \in DOMAIN pt.writers :
                  /\ k \in DOMAIN pt'.writers
                  /\ pt'.writers[k] = pt.writers[k]
                  /\ (pt'.last.key = k /\ pt'.last.res = "Ok")
                         => /\ pt'.last.id = pt.writers[k].id
                            /\ ~pt'.last.made
                            /\ pt'.ncreate = pt.ncreate
                            /\ pt'.files = pt.files
           /\ \A k \in DOMAIN pt'.writers \ DOMAIN pt.writers :
                  /\ pt'.last = [key |-> k, res |-> "Ok",
                                 id |-> pt'.writers[k].id, made |-> TRUE]
                  /\ pt'.ncreate = pt.ncreate + 1
                  /\ DOMAIN pt'.writers = DOMAIN pt.writers \cup {k}

\* C16: after any sequence of partition(key) calls the registry of a
\* Utf8PartitionedTableWriter holds exactly one sub-writer per distinct key
\* successfully referenced; the first reference to a key creates
\* <dir>/<column>=<key>/<file> and its sub-writer, every later reference
\* with an equal key returns that sub-writer and creates no file.
C16_KeyedRegistry == []KeyedRegistryOk /\ [][KeyedStepOk]_vars

\* A held key was referenced again while the registry holds two keys.
C16_Witness ==
    /\ pt.kind = "utf8"
    /\ pt.last.res = "Ok"
    /\ ~pt.last.made
    /\ Cardinality(DOMAIN pt.writers) = 2

\* A failed step of partition(key) on a keyed writer: the key was not held,
\* the registry is the one before the call and holds no entry for the key.
FailedPartitionStep ==
    (pt.kind = "utf8" /\ pt.st = "live" /\ pt'.st = "live"
        /\ pt'.last.res = "Err")
        => /\ pt'.last.key \notin DOMAIN pt.writers
           /\ pt'.writers = pt.writers
           /\ pt'.nid = pt.nid

\* A step of partition(key) that succeeds right after partition(key) failed
\* went through the creation again: it created the file and the sub-writer.
RetryPartitionStep ==
    (pt.kind = "utf8" /\ pt.st = "live" /\ pt'.st = "live"
        /\ pt.last.res = "Err" /\ pt'.last.res = "Ok"
        /\ pt'.last.key = pt.last.key)
        => /\ pt'.last.made
           /\ pt'.ncreate = pt.ncreate + 1
           /\ pt'.last.key \in DOMAIN pt'.writers
           /\ pt'.writers[pt'.last.key].path = KeyedFile(pt'.last.key)

\* C22: when partition(key) of a Utf8PartitionedTableWriter fails for an
\* unseen key, the error is returned and the registry is left unchanged: no
\* entry for the key, the held sub-writers untouched, and a later
\* partition(key) attempts the creation again.
C22_FailedPartitionLeavesRegistry ==
    /\ [](pt.kind = "utf8" /\ pt.last.res = "Err"
             => pt.last.key \notin DOMAIN pt.writers)
    /\ [][FailedPartitionStep /\ RetryPartitionStep]_vars

\* The creation of the sub-writer of an unseen key failed after its file was
\* created, while the registry holds the sub-writer of another key.
C22_Witness ==
    /\ pt.kind = "utf8"
    /\ pt.st = "live"
    /\ pt.last.res = "Err"
    /\ pt.last.made
    /\ Cardinality(DOMAIN pt.writers) = 1

\* C17 (as stated): when the flush or close of a partitioned writer has been
\* through its sub-writers, every sub-writer was visited exactly once, also
\* when a sibling failed, and the result is an error exactly when a
\* sub-writer failed.
C17_PartitionedVisitsAllOnce ==
    (pt.st \in {"flushing", "closing"} /\ fan.pending = {})
        => /\ \A k \in fan.targets :
                  IF fan.kind = "flush" THEN pt.writers[k].flushes = 1
                  ELSE pt.writers[k].closes = 1
           /\ fan.err <=> \E k \in fan.targets : ~pt.writers[k].ok


\* C23 (as stated): no two files opened by the writers of one
\* ParallelDatasetWriter share a path: every file creation of a partitioned
\* writer handed out by it made a path no earlier creation had made, and no
\* two of its sub-writers write to the same path.
C23_DistinctPaths ==
    /\ pt.ncreate = Cardinality(pt.files)
    /\ \A k1, k2 \in DOMAIN pt.writers :
           k1 # k2 => pt.writers[k1].path # pt.writers[k2].path

====
